---- MODULE Spec2Model ----
(***************************************************************************)
(* CHash: a fixed-capacity, separately chained hash table from string keys *)
(* to opaque value pointers (src/chash.c, src/chash.h).                    *)
(*                                                                         *)
(* The model is the C heap the module works on: the t_table block, its     *)
(* p_entries array, the t_property blocks and the key copies, each with an *)
(* allocated flag, and one action per public function.  Pointers are       *)
(* addresses: 0 is NULL, entry blocks are 1..NumEntries, key blocks are    *)
(* 1..NumEntries, value pointers are 0..NumValues.                         *)
(*                                                                         *)
(* Undefined behaviour (a read through a released or null pointer, a       *)
(* modulo by zero) is recorded in the variable fault, and the step then    *)
(* either aborts the process or returns an arbitrary pointer.  Nothing is  *)
(* modelled after undefined behaviour.  A run follows one table from       *)
(* ch_create to ch_destroy.                                                *)
(***************************************************************************)
EXTENDS Integers, Sequences, FiniteSets, TLC

(* ------------------------------ bounds -------------------------------- *)
\* Largest table_size passed to ch_create.
MaxCap == 2
\* Number of t_property blocks (and of key blocks) the heap can hold.
NumEntries == 3
\* Number of distinct key strings the caller uses.
NumKeys == 3
\* Number of distinct non-null value pointers the caller uses.
NumValues == 1
MaxHashLen == 2

(* ------------------------- program constants -------------------------- *)
NULL == 0
\* The multiplier of the hash.
HashMultiplier == 33
\* unsigned long int is kept as NumLimbs limbs of 16 bits (LP64).
NumLimbs == 4
LimbBase == 65536
\* unsigned short length wraps at 2^16.
UShortMod == 65536
\* sizeof(p_table->p_entries) and sizeof(t_property) on LP64.
SizeofPointer == 8
SizeofProperty == 24
\* The address of the one t_table block.
TableAddr == 1
\* The ghost value of a key the table is not expected to hold.
Absent == NumValues + 1

(* --------------------------- value domains ---------------------------- *)
EntryAddrs == 1..NumEntries
KeyAddrs == 1..NumEntries
\* The address of the caller's own key buffer, a block malloc never returns.
CallerKey == NumEntries + 1
KeyBlocks == KeyAddrs \cup {CallerKey}
ValuePtrs == 0..NumValues
\* "ab", "b", "c", "d", ...: the first key has two bytes.
KeyOf(i) == IF i = 1 THEN <<97, 98>> ELSE <<96 + i>>
Keys == { KeyOf(i) : i \in 1..NumKeys }
NoKey == <<>>

FreeEntry == [alloc |-> FALSE, p_key |-> NULL, p_value |-> NULL, p_next |-> NULL]
FreeKey == [alloc |-> FALSE, data |-> NoKey]

VARIABLES
  handle,       \* "none", "live", "destroyed"; "crashed", "undefined" on a fault
  tableAlloc,   \* the t_table block is allocated
  slotsAlloc,   \* the p_entries array is allocated
  size,         \* p_table->size
  p_entries,    \* p_table->p_entries: slot index -> entry address or NULL
  ent,          \* the t_property blocks: address -> fields and allocated flag
  keymem,       \* the key blocks: address -> string and allocated flag
  char_signed,  \* whether plain char is signed in this build
  fault,        \* the first undefined behaviour executed, or "none"
  lastOp,       \* the last call: function, arguments, return value
  expect,       \* ghost: key -> value the calls so far should have stored
  hist          \* ghost: "puts", "mixed" or "cleared" since ch_create

vars == <<handle, tableAlloc, slotsAlloc, size, p_entries, ent, keymem,
          char_signed, fault, lastOp, expect, hist>>

(* ------------------------------- _hash -------------------------------- *)
\* A plain char converted to unsigned long: bytes >= 128 sign-extend when
\* char is signed.
CharToULong(b, sgn) ==
  IF sgn /\ b >= 128
    THEN [i \in 1..NumLimbs |-> IF i = 1 THEN LimbBase - (256 - b) ELSE LimbBase - 1]
    ELSE [i \in 1..NumLimbs |-> IF i = 1 THEN b ELSE 0]

RECURSIVE MulAdd(_, _, _, _)
\* value * 33 + addend, modulo 2^(16 * NumLimbs), limb i upwards.
MulAdd(value, addend, i, carry) ==
  IF i > NumLimbs THEN <<>>
  ELSE LET t == value[i] * HashMultiplier + addend[i] + carry
       IN  <<t % LimbBase>> \o MulAdd(value, addend, i + 1, t \div LimbBase)

RECURSIVE HashLoop(_, _, _, _, _)
HashLoop(p_key, length, counter, value, sgn) ==
  IF counter < length
    THEN HashLoop(p_key, length, counter + 1,
                  MulAdd(value, CharToULong(p_key[counter + 1], sgn), 1, 0), sgn)
    ELSE value

_hash(p_key, sgn) ==
  HashLoop(p_key, Len(p_key) % UShortMod, 0, [i \in 1..NumLimbs |-> 0], sgn)

RECURSIVE LimbsMod(_, _, _, _)
\* The unsigned long value modulo m, most significant limb first.
LimbsMod(value, m, i, acc) ==
  IF i = 0 THEN acc
  ELSE LimbsMod(value, m, i - 1, (acc * (LimbBase % m) + value[i]) % m)

\* hash = _hash(p_key) % p_table->size, for size > 0.  The result is below
\* size, so that storing it in an unsigned int loses nothing.
HashSlot(p_key, sz, sgn) == LimbsMod(_hash(p_key, sgn), sz, NumLimbs, 0)

\* HashSlot for the keys, capacities and builds of the model, computed once.
SlotTable ==
  [x \in Keys \X (1..MaxCap) \X BOOLEAN |-> HashSlot(x[1], x[2], x[3])]
    @@ [x \in {} |-> 0]

SlotOf(p_key, sz) == SlotTable[<<p_key, sz, char_signed>>]

(* ------------------------------ the heap ------------------------------ *)
\* The part of the heap the table functions read and write.
Heap == [p_entries |-> p_entries, ent |-> ent, keymem |-> keymem]

\* The outcome of a call: the heap after it, its return value, the undefined
\* behaviour it ran into ("none" if it ran to its return), and whether a
\* malloc it made returned NULL.
Ok(h, ret) == [h |-> h, ret |-> ret, fault |-> "none", allocFailed |-> FALSE]
Undefined(h, kind) == [h |-> h, ret |-> NULL, fault |-> kind, allocFailed |-> FALSE]

\* The released entry blocks that a slot or a chain link still points to.
Dangling(h) ==
  {e \in EntryAddrs :
     /\ ~h.ent[e].alloc
     /\ \/ \E i \in DOMAIN h.p_entries : h.p_entries[i] = e
        \/ \E d \in EntryAddrs : h.ent[d].alloc /\ h.ent[d].p_next = e}

\* What malloc may return for a t_property: NULL, or the address of a block
\* that is not allocated.  Free blocks that nothing points to are
\* interchangeable, so the lowest of them stands for all of them; a free
\* block that is still pointed to is a different outcome, and each is kept.
MallocEntry(h) ==
  LET free == {e \in EntryAddrs : ~h.ent[e].alloc} \ Dangling(h)
  IN  {NULL} \cup Dangling(h) \cup {e \in free : \A m \in free : e <= m}
\* No pointer to a key block outlives the block (_clear nulls p_key), so the
\* key blocks are interchangeable and the lowest free one stands for them.
MallocKey(h) ==
  LET free == {k \in KeyAddrs : ~h.keymem[k].alloc}
  IN  {NULL} \cup {k \in free : \A m \in free : k <= m}

\* Reading a field through p: undefined for NULL and for a released block.
BadDeref(h, p) ==
  IF p = NULL THEN "null_deref"
  ELSE IF ~h.ent[p].alloc THEN "use_after_free"
  ELSE "none"

RECURSIVE ChainFrom(_, _, _)
\* The entries a walk from p visits, up to the first released or repeated one.
ChainFrom(h, p, seen) ==
  IF p = NULL \/ p \in seen THEN <<>>
  ELSE IF ~h.ent[p].alloc THEN <<>>
  ELSE <<p>> \o ChainFrom(h, h.ent[p].p_next, seen \cup {p})

ChainOfSlot(h, i) == ChainFrom(h, h.p_entries[i], {})

(* ------------------------------- _clear ------------------------------- *)
\* Mutant of _clear: the entry is released, its key string is not.
_clear_entry_only(h, p_entry) ==
  IF BadDeref(h, p_entry) # "none" THEN Undefined(h, BadDeref(h, p_entry))
  ELSE Ok([h EXCEPT !.ent[p_entry] = FreeEntry], NULL)

\* free(p_entry->p_key) if it is not NULL, then free(p_entry).
_clear(h, p_entry) ==
  IF BadDeref(h, p_entry) # "none" THEN Undefined(h, BadDeref(h, p_entry))
  ELSE LET k == h.ent[p_entry].p_key
           km == IF k # NULL THEN [h.keymem EXCEPT ![k] = FreeKey] ELSE h.keymem
       IN  IF k # NULL /\ ~h.keymem[k].alloc THEN Undefined(h, "double_free")
           ELSE Ok([h EXCEPT !.keymem = km, !.ent[p_entry] = FreeEntry], NULL)

(* ----------------------------- _construct ----------------------------- *)
\* Mutant of _construct: the entry keeps the caller's pointer, p_entry->p_key
\* = p_key, instead of a malloc'ed copy of the string.
_construct_alias(h, p_key, p_value, eo, ko) ==
  IF eo = NULL
    THEN [Undefined(h, "null_deref") EXCEPT !.allocFailed = TRUE]
  ELSE Ok([h EXCEPT !.ent[eo] = [alloc |-> TRUE, p_key |-> CallerKey,
                                 p_value |-> p_value, p_next |-> NULL]],
          eo)

\* eo and ko are what the two malloc calls return.
_construct(h, p_key, p_value, eo, ko) ==
  IF eo = NULL                                      \* p_entry->p_key = ...
    THEN [Undefined(h, "null_deref") EXCEPT !.allocFailed = TRUE]
  ELSE IF ko = NULL
    THEN \* _clear(p_entry) with p_key NULL releases the entry again
         LET c == _clear([h EXCEPT !.ent[eo] = [FreeEntry EXCEPT !.alloc = TRUE]],
                         eo)
         IN  [c EXCEPT !.ret = NULL, !.allocFailed = TRUE]
  ELSE Ok([h EXCEPT !.keymem[ko] = [alloc |-> TRUE, data |-> p_key],
                    !.ent[eo] = [alloc |-> TRUE, p_key |-> ko,
                                 p_value |-> p_value, p_next |-> NULL]],
          eo)

\* strcmp(p_entry->p_key, p_key) == 0, for an allocated entry.
KeyMatches(h, p_entry, p_key) ==
  LET k == h.ent[p_entry].p_key
  IN  k # NULL /\ h.keymem[k].data = p_key

\* strcmp reads through p_entry->p_key: undefined if it is NULL or released.
BadKey(h, p_entry) ==
  LET k == h.ent[p_entry].p_key
  IN  IF k = NULL THEN "null_deref"
      ELSE IF ~h.keymem[k].alloc THEN "use_after_free"
      ELSE "none"

(* ------------------------------- ch_put ------------------------------- *)
RECURSIVE PutWalkAppend(_, _, _, _, _, _, _)
\* Mutant of PutWalk: the walk never compares keys and always appends.
PutWalkAppend(h, p_entry, p_key, p_value, eo, ko, seen) ==
  IF BadDeref(h, p_entry) # "none" THEN Undefined(h, BadDeref(h, p_entry))
  ELSE IF p_entry \in seen THEN Undefined(h, "no_termination")
  ELSE IF h.ent[p_entry].p_next # NULL
    THEN PutWalkAppend(h, h.ent[p_entry].p_next, p_key, p_value, eo, ko,
                       seen \cup {p_entry})
  ELSE LET c == _construct(h, p_key, p_value, eo, ko)
       IN  IF c.fault # "none" THEN c
           ELSE [c EXCEPT !.h.ent[p_entry].p_next = c.ret, !.ret = p_value]

RECURSIVE PutWalk(_, _, _, _, _, _, _)
\* The while loop of ch_put from p_entry on; seen are the entries visited.
PutWalk(h, p_entry, p_key, p_value, eo, ko, seen) ==
  IF BadDeref(h, p_entry) # "none" THEN Undefined(h, BadDeref(h, p_entry))
  ELSE IF BadKey(h, p_entry) # "none" THEN Undefined(h, BadKey(h, p_entry))
  ELSE IF p_entry \in seen THEN Undefined(h, "no_termination")
  ELSE IF KeyMatches(h, p_entry, p_key)
    THEN Ok([h EXCEPT !.ent[p_entry].p_value = p_value], p_value)
  ELSE IF h.ent[p_entry].p_next # NULL
    THEN PutWalk(h, h.ent[p_entry].p_next, p_key, p_value, eo, ko,
                 seen \cup {p_entry})
  ELSE \* p_previous->p_next = _construct(p_key, p_value)
       LET c == _construct(h, p_key, p_value, eo, ko)
       IN  IF c.fault # "none" THEN c
           ELSE [c EXCEPT !.h.ent[p_entry].p_next = c.ret, !.ret = p_value]

\* Mutant of ch_put: the slot is always the first, whatever the key.
ch_put_first_slot(h, sz, p_key, p_value, eo, ko) ==
  IF sz = 0 THEN Undefined(h, "div_by_zero")
  ELSE LET hash == 0
           p_entry == h.p_entries[hash]
       IN  IF p_entry = NULL
             THEN LET c == _construct(h, p_key, p_value, eo, ko)
                  IN  IF c.fault # "none" THEN c
                      ELSE [c EXCEPT !.h.p_entries[hash] = c.ret,
                                     !.ret = p_value]
             ELSE PutWalk(h, p_entry, p_key, p_value, eo, ko, {})

\* Mutant of ch_put: a new entry becomes the head of its chain.
ch_put_push(h, sz, p_key, p_value, eo, ko) ==
  IF sz = 0 THEN Undefined(h, "div_by_zero")
  ELSE LET hash == SlotOf(p_key, sz)
           c == ChainOfSlot(h, hash)
           at == {j \in 1..Len(c) : KeyMatches(h, c[j], p_key)}
       IN  IF at # {}
             THEN Ok([h EXCEPT !.ent[c[CHOOSE j \in at : TRUE]].p_value = p_value],
                     p_value)
             ELSE LET n == _construct(h, p_key, p_value, eo, ko)
                  IN  IF n.fault # "none" \/ n.ret = NULL
                        THEN [n EXCEPT !.ret = p_value]
                        ELSE [n EXCEPT !.h.ent[n.ret].p_next = h.p_entries[hash],
                                       !.h.p_entries[hash] = n.ret,
                                       !.ret = p_value]

\* Mutant of ch_put: a new entry replaces the head of a slot in use.
ch_put_overwrite(h, sz, p_key, p_value, eo, ko) ==
  IF sz = 0 THEN Undefined(h, "div_by_zero")
  ELSE LET c == _construct(h, p_key, p_value, eo, ko)
       IN  IF c.fault # "none" THEN c
           ELSE [c EXCEPT !.h.p_entries[SlotOf(p_key, sz)] = c.ret,
                          !.ret = p_value]

ch_put(h, sz, p_key, p_value, eo, ko) ==
  IF sz = 0 THEN Undefined(h, "div_by_zero")
  ELSE LET hash == SlotOf(p_key, sz)
           p_entry == h.p_entries[hash]
       IN  IF p_entry = NULL
             THEN LET c == _construct(h, p_key, p_value, eo, ko)
                  IN  IF c.fault # "none" THEN c
                      ELSE [c EXCEPT !.h.p_entries[hash] = c.ret,
                                     !.ret = p_value]
             ELSE PutWalk(h, p_entry, p_key, p_value, eo, ko, {})

(* ------------------------------- ch_get ------------------------------- *)
\* Mutant of GetWalk: the value of the first entry of the chain is returned
\* without comparing keys.
GetWalkFirst(h, p_entry, p_key, seen) ==
  IF p_entry = NULL THEN Ok(h, NULL)
  ELSE IF BadDeref(h, p_entry) # "none" THEN Undefined(h, BadDeref(h, p_entry))
  ELSE Ok(h, h.ent[p_entry].p_value)

\* Mutant of ch_get: the value found is handed over and the entry keeps NULL.
ch_get_take(h, sz, p_key) ==
  IF sz = 0 THEN Undefined(h, "div_by_zero")
  ELSE LET c == ChainOfSlot(h, SlotOf(p_key, sz))
           at == {j \in 1..Len(c) : KeyMatches(h, c[j], p_key)}
       IN  IF at = {} THEN Ok(h, NULL)
           ELSE LET e == c[CHOOSE j \in at : TRUE]
                IN  Ok([h EXCEPT !.ent[e].p_value = NULL], h.ent[e].p_value)

RECURSIVE GetWalk(_, _, _, _)
GetWalk(h, p_entry, p_key, seen) ==
  IF p_entry = NULL THEN Ok(h, NULL)
  ELSE IF BadDeref(h, p_entry) # "none" THEN Undefined(h, BadDeref(h, p_entry))
  ELSE IF BadKey(h, p_entry) # "none" THEN Undefined(h, BadKey(h, p_entry))
  ELSE IF p_entry \in seen THEN Undefined(h, "no_termination")
  ELSE IF KeyMatches(h, p_entry, p_key) THEN Ok(h, h.ent[p_entry].p_value)
  ELSE GetWalk(h, h.ent[p_entry].p_next, p_key, seen \cup {p_entry})

ch_get(h, sz, p_key) ==
  IF sz = 0 THEN Undefined(h, "div_by_zero")
  ELSE GetWalk(h, h.p_entries[SlotOf(p_key, sz)], p_key, {})

(* ------------------------------ ch_delete ----------------------------- *)
\* Mutant of Unlink: the slot head is rewritten whatever p_previous is.
UnlinkHead(h, hash, p_previous, p_current) ==
  LET c == _clear([h EXCEPT !.p_entries[hash] = h.ent[p_current].p_next],
                  p_current)
  IN  IF c.fault # "none" THEN c
      ELSE [c EXCEPT !.ret = h.ent[p_current].p_value]

\* The unlink of ch_delete: the slot head or the previous entry's p_next is
\* set to p_current->p_next, then p_current is released.
Unlink(h, hash, p_previous, p_current) ==
  LET next == h.ent[p_current].p_next
      linked == IF p_previous = NULL
                  THEN [h EXCEPT !.p_entries[hash] = next]
                  ELSE [h EXCEPT !.ent[p_previous].p_next = next]
      c == _clear(linked, p_current)
  IN  IF c.fault # "none" THEN c
      ELSE [c EXCEPT !.ret = h.ent[p_current].p_value]

RECURSIVE DeleteWalkLast(_, _, _, _, _, _)
\* Mutant of DeleteWalk: the walk stops at the last entry of the chain and
\* removes it whether or not its key matches.
DeleteWalkLast(h, hash, p_previous, p_current, p_key, seen) ==
  IF p_current = NULL THEN Ok(h, NULL)
  ELSE IF BadDeref(h, p_current) # "none" THEN Undefined(h, BadDeref(h, p_current))
  ELSE IF BadKey(h, p_current) # "none" THEN Undefined(h, BadKey(h, p_current))
  ELSE IF p_current \in seen THEN Undefined(h, "no_termination")
  ELSE IF KeyMatches(h, p_current, p_key) \/ h.ent[p_current].p_next = NULL
    THEN Unlink(h, hash, p_previous, p_current)
  ELSE DeleteWalkLast(h, hash, p_current, h.ent[p_current].p_next, p_key,
                      seen \cup {p_current})

RECURSIVE DeleteWalk(_, _, _, _, _, _)
DeleteWalk(h, hash, p_previous, p_current, p_key, seen) ==
  IF p_current = NULL THEN Ok(h, NULL)
  ELSE IF BadDeref(h, p_current) # "none" THEN Undefined(h, BadDeref(h, p_current))
  ELSE IF BadKey(h, p_current) # "none" THEN Undefined(h, BadKey(h, p_current))
  ELSE IF p_current \in seen THEN Undefined(h, "no_termination")
  ELSE IF KeyMatches(h, p_current, p_key)
    THEN Unlink(h, hash, p_previous, p_current)
  ELSE DeleteWalk(h, hash, p_current, h.ent[p_current].p_next, p_key,
                  seen \cup {p_current})

ch_delete(h, sz, p_key) ==
  IF sz = 0 THEN Undefined(h, "div_by_zero")
  ELSE LET hash == SlotOf(p_key, sz)
       IN  DeleteWalk(h, hash, NULL, h.p_entries[hash], p_key, {})

(* ------------------------------ ch_clear ------------------------------ *)
RECURSIVE ClearLoop(_, _, _)
\* The while loop of ch_clear from slot counter on: the head of each slot is
\* handed to _clear; the slot itself is not written.
ClearLoop(h, sz, counter) ==
  IF counter >= sz THEN Ok(h, NULL)
  ELSE LET p_entry == h.p_entries[counter]
       IN  IF p_entry = NULL THEN ClearLoop(h, sz, counter + 1)
           ELSE LET c == _clear(h, p_entry)
                IN  IF c.fault # "none" THEN c
                    ELSE ClearLoop(c.h, sz, counter + 1)

ch_clear(h, sz) == ClearLoop(h, sz, 0)

(* ------------------------------ ch_destroy ---------------------------- *)
\* The first statement of ch_destroy: ch_clear runs only if the quotient of
\* the two sizeof is positive.  haveSlots tells whether p_table->p_entries
\* is not NULL.  The two free calls that follow are in the actions.
ch_destroy(h, sz, haveSlots) ==
  IF (SizeofPointer \div SizeofProperty) > 0
    THEN IF haveSlots \/ sz = 0 THEN ch_clear(h, sz)
         ELSE Undefined(h, "null_deref")
    ELSE Ok(h, NULL)

(* --------------------------- views of a table ------------------------- *)
KeyAt(h, e) == IF h.ent[e].p_key = NULL THEN NoKey ELSE h.keymem[h.ent[e].p_key].data

\* The chain of slot i as the sequence of its <<key, value>> pairs.
ChainPairs(h, sz, i) ==
  LET c == ChainFrom(h, h.p_entries[i], {})
  IN  [j \in 1..Len(c) |-> <<KeyAt(h, c[j]), h.ent[c[j]].p_value>>]

Table(h, sz) == [i \in 0..(sz - 1) |-> ChainPairs(h, sz, i)]

\* The position of p_key in the chain of its slot (0 if it is not there) and
\* the length of that chain.
PosOf(h, sz, p_key) ==
  IF sz = 0 THEN 0
  ELSE LET c == ChainPairs(h, sz, SlotOf(p_key, sz))
           at == {j \in 1..Len(c) : c[j][1] = p_key}
       IN  IF at = {} THEN 0 ELSE CHOOSE j \in at : \A m \in at : j <= m

LenOf(h, sz, p_key) ==
  IF sz = 0 THEN 0 ELSE Len(ChainPairs(h, sz, SlotOf(p_key, sz)))

\* The number of entries reachable from the slots whose key is p_key.
CountKey(h, sz, p_key) ==
  Cardinality({<<i, j>> \in (0..(sz - 1)) \X (1..NumEntries) :
                 /\ j <= Len(ChainPairs(h, sz, i))
                 /\ ChainPairs(h, sz, i)[j][1] = p_key})

(* ------------------------------- actions ------------------------------ *)
EmptySlots(sz) == [i \in 0..(sz - 1) |-> NULL]
NoExpect == [k \in Keys |-> Absent]
\* The record of a call: its function, key and value (or table_size)
\* arguments and return value, and as ghost fields what held when it was made:
\* old, the value the key was expected to map to (Absent if none), pos, the
\* position of the key in the chain of its slot (0 if not there), and len,
\* the length of that chain.
Call(op, key, val, ret, pos, len) ==
  [op |-> op, key |-> key, val |-> val, ret |-> ret, pos |-> pos, len |-> len,
   old |-> IF key \in Keys THEN expect[key] ELSE Absent]

Init ==
  /\ handle = "none"
  /\ tableAlloc = FALSE
  /\ slotsAlloc = FALSE
  /\ size = 0
  /\ p_entries = EmptySlots(0)
  /\ ent = [e \in EntryAddrs |-> FreeEntry]
  /\ keymem = [k \in KeyBlocks |-> FreeKey]
  /\ char_signed = TRUE
  /\ fault = "none"
  /\ lastOp = Call("init", NoKey, NULL, NULL, 0, 0)
  /\ expect = NoExpect
  /\ hist = "puts"

\* A call that ran into undefined behaviour: the process aborts, or the call
\* returns some pointer of rets.  What the heap holds from then on is not
\* defined by the program, so the model stops tracking it: the heap variables
\* take their initial values and no action is enabled any more.
Misbehave(op, key, val, kind, rets) ==
  /\ fault' = kind
  /\ tableAlloc' = FALSE
  /\ slotsAlloc' = FALSE
  /\ size' = 0
  /\ p_entries' = EmptySlots(0)
  /\ ent' = [e \in EntryAddrs |-> FreeEntry]
  /\ keymem' = [k \in KeyBlocks |-> FreeKey]
  /\ expect' = NoExpect
  /\ UNCHANGED <<char_signed, hist>>
  /\ \/ /\ handle' = "crashed"
        /\ lastOp' = Call(op, key, val, NULL, 0, 0)
     \/ /\ handle' = "undefined"
        /\ \E rv \in rets : lastOp' = Call(op, key, val, rv, 0, 0)

\* A call that ran to its return with outcome r.
Return(op, key, val, r, pos, len) ==
  /\ p_entries' = r.h.p_entries
  /\ ent' = r.h.ent
  /\ keymem' = r.h.keymem
  /\ lastOp' = Call(op, key, val, r.ret, pos, len)
  /\ UNCHANGED <<handle, tableAlloc, slotsAlloc, size, char_signed, fault>>

\* t_table * ch_create(unsigned long int table_size); okT and okE tell
\* whether the two malloc calls return a block.
Create(table_size, okT, okE) ==
  /\ handle = "none"
  /\ fault = "none"
  /\ IF ~okT
       THEN \* p_table->p_entries = ... through a null p_table
            Misbehave("create", NoKey, table_size, "null_deref", {NULL})
     ELSE IF ~okE
       THEN \* ch_destroy(p_table) with p_entries NULL, then return NULL
            LET d == ch_destroy(Heap, table_size, FALSE)
            IN  IF d.fault # "none"
                  THEN Misbehave("create", NoKey, table_size, d.fault, {NULL})
                  ELSE /\ Return("create", NoKey, table_size, d, 0, 0)
                       /\ UNCHANGED <<expect, hist>>
     ELSE /\ handle' = "live"
          /\ tableAlloc' = TRUE
          /\ slotsAlloc' = TRUE
          /\ size' = table_size
          /\ p_entries' = EmptySlots(table_size)
          /\ lastOp' = Call("create", NoKey, table_size, TableAddr, 0, 0)
          /\ expect' = NoExpect
          /\ hist' = "puts"
          /\ UNCHANGED <<ent, keymem, char_signed, fault>>

\* void * ch_put(t_table * p_table, const char * p_key, void * p_value)
Put(p_key, p_value, eo, ko) ==
  /\ handle = "live"
  /\ fault = "none"
  /\ LET r == ch_put(Heap, size, p_key, p_value, eo, ko)
     IN  IF r.fault # "none"
           THEN Misbehave("put", p_key, p_value, r.fault, ValuePtrs)
           ELSE /\ Return("put", p_key, p_value, r,
                          PosOf(Heap, size, p_key), LenOf(Heap, size, p_key))
                /\ expect' = IF r.allocFailed THEN expect
                             ELSE [expect EXCEPT ![p_key] = p_value]
                /\ hist' = IF hist = "cleared" THEN hist
                           ELSE IF r.allocFailed \/ expect[p_key] # Absent
                             THEN "mixed"
                           ELSE hist

\* void * ch_get(t_table * p_table, const char * p_key)
Get(p_key) ==
  /\ handle = "live"
  /\ fault = "none"
  /\ LET r == ch_get(Heap, size, p_key)
     IN  IF r.fault # "none"
           THEN Misbehave("get", p_key, NULL, r.fault, ValuePtrs)
           ELSE /\ Return("get", p_key, NULL, r,
                          PosOf(Heap, size, p_key), LenOf(Heap, size, p_key))
                /\ UNCHANGED <<expect, hist>>

\* void * ch_delete(t_table * p_table, const char * p_key)
Delete(p_key) ==
  /\ handle = "live"
  /\ fault = "none"
  /\ LET r == ch_delete(Heap, size, p_key)
     IN  IF r.fault # "none"
           THEN Misbehave("delete", p_key, NULL, r.fault, ValuePtrs)
           ELSE /\ Return("delete", p_key, NULL, r,
                          PosOf(Heap, size, p_key), LenOf(Heap, size, p_key))
                /\ expect' = [expect EXCEPT ![p_key] = Absent]
                /\ hist' = IF hist = "cleared" THEN hist ELSE "mixed"

\* void ch_clear(t_table * p_table)
Clear ==
  /\ handle = "live"
  /\ fault = "none"
  /\ LET r == ch_clear(Heap, size)
     IN  IF r.fault # "none"
           THEN Misbehave("clear", NoKey, NULL, r.fault, {NULL})
           ELSE /\ Return("clear", NoKey, NULL, r, 0, 0)
                /\ expect' = NoExpect
                /\ hist' = IF \E i \in 0..(size - 1) : p_entries[i] # NULL
                             THEN "cleared" ELSE hist

\* void ch_destroy(t_table * p_table): the clear step, then free(p_entries)
\* and free(p_table).
Destroy ==
  /\ handle = "live"
  /\ fault = "none"
  /\ LET r == ch_destroy(Heap, size, TRUE)
     IN  IF r.fault # "none"
           THEN Misbehave("destroy", NoKey, NULL, r.fault, {NULL})
           ELSE /\ ent' = r.h.ent
                /\ keymem' = r.h.keymem
                /\ p_entries' = EmptySlots(0)
                /\ size' = 0
                /\ slotsAlloc' = FALSE
                /\ tableAlloc' = FALSE
                /\ handle' = "destroyed"
                /\ lastOp' = Call("destroy", NoKey, NULL, NULL, 0, 0)
                /\ expect' = NoExpect
                /\ UNCHANGED <<char_signed, fault, hist>>

\* Whether ch_put(p_key, ...) reaches _construct and so calls malloc.
PutAllocates(p_key) == ch_put(Heap, size, p_key, NULL, NULL, NULL).allocFailed

Next ==
  \/ \E table_size \in 0..MaxCap, okT \in BOOLEAN, okE \in BOOLEAN :
       Create(table_size, okT, okE)
  \/ \E p_key \in Keys, p_value \in ValuePtrs :
       \E eo \in IF PutAllocates(p_key) THEN MallocEntry(Heap) ELSE {NULL} :
         \E ko \in IF eo # NULL THEN MallocKey(Heap) ELSE {NULL} :
           Put(p_key, p_value, eo, ko)
  \/ \E p_key \in Keys : Get(p_key)
  \/ \E p_key \in Keys : Delete(p_key)
  \/ Clear
  \/ Destroy

Spec == Init /\ [][Next]_vars

(* --------------------------- _hash on its own -------------------------- *)
\* The strings _hash is applied to: every string of at most MaxHashLen bytes
\* of HashBytes, and one string of 2^16 + 1 bytes.
HashBytes == {1, 97, 127, 128, 255}
LongKey == [i \in 1..(UShortMod + 1) |-> IF i <= UShortMod THEN 97 ELSE 98]
HashKeys ==
  UNION {[1..n -> HashBytes] : n \in 0..MaxHashLen} \cup {LongKey}

\* A caller holding a key string, on a build with signed or unsigned char.
InitHash ==
  /\ handle = "none"
  /\ tableAlloc = FALSE
  /\ slotsAlloc = FALSE
  /\ size = 0
  /\ p_entries = EmptySlots(0)
  /\ ent = [e \in EntryAddrs |-> FreeEntry]
  /\ keymem = [k \in KeyBlocks |-> FreeKey]
  /\ char_signed \in BOOLEAN
  /\ fault = "none"
  /\ expect = NoExpect
  /\ hist = "puts"
  /\ \E k \in HashKeys :
       lastOp = [op |-> "key", key |-> k, val |-> 0, ret |-> <<>>, pos |-> 0]

\* hash = _hash(p_key) % p_table->size, as ch_put, ch_get and ch_delete
\* compute it for a table of table_size slots: ret is the unsigned long that
\* _hash returns, pos the slot.
Hash(table_size) ==
  /\ lastOp.op = "key"
  /\ lastOp' = [lastOp EXCEPT
                  !.op = "hash", !.val = table_size,
                  !.ret = _hash(lastOp.key, char_signed),
                  !.pos = HashSlot(lastOp.key, table_size, char_signed)]
  /\ UNCHANGED <<handle, tableAlloc, slotsAlloc, size, p_entries, ent, keymem,
                 char_signed, fault, expect, hist>>

NextHash == \E table_size \in 1..MaxCap : Hash(table_size)

SpecHash == InitHash /\ [][NextHash]_vars

(* ---------------------- the caller's key buffer ----------------------- *)
\* A caller that keeps its key in a buffer of its own, passes that buffer to
\* ch_put, and afterwards writes another string into it or releases it.
\* (Spec is the caller of main.c, whose keys are string literals.)
BufferKey == keymem[CallerKey].data

InitKeyCopy ==
  /\ handle = "none"
  /\ tableAlloc = FALSE
  /\ slotsAlloc = FALSE
  /\ size = 0
  /\ p_entries = EmptySlots(0)
  /\ ent = [e \in EntryAddrs |-> FreeEntry]
  /\ \E k \in Keys :
       keymem = [b \in KeyBlocks |->
                   IF b = CallerKey THEN [alloc |-> TRUE, data |-> k]
                   ELSE FreeKey]
  /\ char_signed = TRUE
  /\ fault = "none"
  /\ lastOp = Call("init", NoKey, NULL, NULL, 0, 0)
  /\ expect = NoExpect
  /\ hist = "puts"

\* ch_put(p_table, buffer, p_value)
PutFromBuffer(p_value, eo, ko) ==
  /\ keymem[CallerKey].alloc
  /\ Put(BufferKey, p_value, eo, ko)

\* The caller writes the string p_key into its buffer.  The ghost fields of
\* the record are those of the string the buffer held.
Overwrite(p_key) ==
  /\ handle = "live" /\ fault = "none" /\ size > 0
  /\ keymem[CallerKey].alloc
  /\ p_key # BufferKey
  /\ keymem' = [keymem EXCEPT ![CallerKey].data = p_key]
  /\ lastOp' = [Call("overwrite", p_key, NULL, NULL,
                     PosOf(Heap, size, BufferKey), LenOf(Heap, size, BufferKey))
                  EXCEPT !.old = expect[BufferKey]]
  /\ UNCHANGED <<handle, tableAlloc, slotsAlloc, size, p_entries, ent,
                 char_signed, fault, expect, hist>>

\* The caller releases its buffer.
Release ==
  /\ handle = "live" /\ fault = "none" /\ size > 0
  /\ keymem[CallerKey].alloc
  /\ keymem' = [keymem EXCEPT ![CallerKey] = FreeKey]
  /\ lastOp' = [Call("release", NoKey, NULL, NULL,
                     PosOf(Heap, size, BufferKey), LenOf(Heap, size, BufferKey))
                  EXCEPT !.old = expect[BufferKey]]
  /\ UNCHANGED <<handle, tableAlloc, slotsAlloc, size, p_entries, ent,
                 char_signed, fault, expect, hist>>

NextKeyCopy ==
  \/ \E table_size \in 0..MaxCap, okT \in BOOLEAN, okE \in BOOLEAN :
       Create(table_size, okT, okE)
  \/ /\ keymem[CallerKey].alloc
     /\ \E p_value \in ValuePtrs :
          \E eo \in IF PutAllocates(BufferKey) THEN MallocEntry(Heap)
                    ELSE {NULL} :
            \E ko \in IF eo # NULL THEN MallocKey(Heap) ELSE {NULL} :
              PutFromBuffer(p_value, eo, ko)
  \/ \E p_key \in Keys : Get(p_key)
  \/ \E p_key \in Keys : Overwrite(p_key)
  \/ Release

SpecKeyCopy == InitKeyCopy /\ [][NextKeyCopy]_vars

(* ------------------------------- claims ------------------------------- *)
\* ch_get(p_key) in the current state returns v without undefined behaviour.
Found(p_key, v) == ch_get(Heap, size, p_key) = Ok(Heap, v)

\* A table with at least one slot that ch_create made and that only ch_put,
\* ch_get and ch_delete (and ch_clear while it was empty) have worked on.
Intact == handle = "live" /\ fault = "none" /\ hist # "cleared" /\ size > 0

\* The chain seq without the pairs whose key is p_key.
RemoveKey(seq, p_key) == SelectSeq(seq, LAMBDA pr : pr[1] # p_key)

\* C1: after any sequence of successful ch_put calls on pairwise distinct
\* keys on a created table of any capacity >= 1, ch_get of every key put
\* returns the value put for it, also when keys share a slot.
C1_PutThenGet ==
  (handle = "live" /\ fault = "none" /\ hist = "puts") =>
    \A k \in Keys : expect[k] # Absent => Found(k, expect[k])

\* C1 witness: capacity 1, at least two distinct keys put, and ch_get has
\* just returned the non-null value of the key at the tail of the chain.
C1_Witness ==
  /\ handle = "live" /\ fault = "none" /\ hist = "puts" /\ size = 1
  /\ lastOp.op = "get" /\ lastOp.len >= 2 /\ lastOp.pos = lastOp.len
  /\ lastOp.ret = expect[lastOp.key] /\ lastOp.ret # NULL

\* C2: a ch_put on a key that an earlier ch_put stored makes ch_get return
\* the new value, and exactly one reachable entry has that key, wherever the
\* key sits in its chain (on a table built by put, get and delete).
C2_UpdateInPlace ==
  (Intact /\ lastOp.op = "put" /\ lastOp.old # Absent) =>
    /\ Found(lastOp.key, lastOp.val)
    /\ CountKey(Heap, size, lastOp.key) = 1

\* C2 witness: the second put changed the value of a key in the middle of a
\* chain of three.
C2_Witness ==
  /\ Intact /\ lastOp.op = "put"
  /\ lastOp.old # Absent /\ lastOp.old # lastOp.val
  /\ lastOp.pos = 2 /\ lastOp.len = 3

\* C3: ch_delete of a key that is present (on a table built by put, get and
\* delete) returns the value stored for it, ch_get of the key then finds
\* nothing, and every chain is the chain it was without the pair of that key.
C3_DeletePresent ==
  [][ (Intact /\ lastOp'.op = "delete" /\ expect[lastOp'.key] # Absent) =>
        /\ fault' = "none"
        /\ handle' = "live"
        /\ size' = size
        /\ lastOp'.ret = expect[lastOp'.key]
        /\ ch_get(Heap', size', lastOp'.key) = Ok(Heap', NULL)
        /\ Table(Heap', size') =
             [i \in 0..(size - 1) |->
                RemoveKey(Table(Heap, size)[i], lastOp'.key)] ]_vars

\* C3 witness: the key deleted was the second of a chain of three.
C3_Witness ==
  /\ Intact /\ lastOp.op = "delete" /\ lastOp.old # Absent
  /\ lastOp.pos = 2 /\ lastOp.len = 3 /\ lastOp.ret = lastOp.old

\* C4: ch_delete of a key that is absent (on a table built by put, get and
\* delete) returns NULL and leaves the whole heap as it was: slot heads,
\* links, keys, values and the set of allocated blocks.
C4_DeleteAbsent ==
  [][ (Intact /\ lastOp'.op = "delete" /\ expect[lastOp'.key] = Absent) =>
        /\ fault' = "none"
        /\ lastOp'.ret = NULL
        /\ Heap' = Heap
        /\ UNCHANGED <<handle, size, tableAlloc, slotsAlloc>> ]_vars

\* C4 witness: the key was looked for in a chain of two entries, neither of
\* which has it.
C4_Witness ==
  /\ Intact /\ lastOp.op = "delete" /\ lastOp.old = Absent
  /\ lastOp.pos = 0 /\ lastOp.len = 2 /\ lastOp.ret = NULL

\* Nothing that a table owned is allocated: no entry and no key copy.
NoEntryAllocated ==
  /\ \A e \in EntryAddrs : ~ent[e].alloc
  /\ \A k \in KeyAddrs : ~keymem[k].alloc

\* C5: after ch_clear on a table of capacity >= 1 every slot of the table is
\* empty, and ch_get finds nothing for any key.
C5_ClearEmptiesSlots ==
  (handle = "live" /\ fault = "none" /\ size > 0 /\ lastOp.op = "clear") =>
    /\ \A i \in 0..(size - 1) : p_entries[i] = NULL
    /\ \A k \in Keys : Found(k, NULL)

\* C6: after ch_clear the table is usable: no later call runs into undefined
\* behaviour, and ch_get of every key put since the clear returns the value
\* put for it, as on a fresh table.
C6_UsableAfterClear ==
  (hist = "cleared") =>
    /\ fault = "none"
    /\ handle = "live" =>
         \A k \in Keys : expect[k] # Absent => Found(k, expect[k])

\* C7: when ch_clear has returned, no entry and no key copy of the table is
\* still allocated, whatever the length of the chains was.
C7_ClearReleasesAll ==
  (fault = "none" /\ lastOp.op = "clear") => NoEntryAllocated

\* C8: after ch_destroy nothing of the table is allocated: no entry, no key
\* copy, not the slot array, not the table structure.
C8_DestroyReleasesAll ==
  (fault = "none" /\ handle = "destroyed") =>
    NoEntryAllocated /\ ~slotsAlloc /\ ~tableAlloc

\* C9: ch_create(0) returns NULL and leaves nothing allocated, and no call
\* ever computes a slot index modulo zero.
C9_CreateZeroFails ==
  /\ (fault = "none" /\ lastOp.op = "create" /\ lastOp.val = 0) =>
       lastOp.ret = NULL /\ ~tableAlloc /\ ~slotsAlloc
  /\ fault # "div_by_zero"

\* C10: a ch_create whose malloc of the table structure or of the slot array
\* fails dereferences no null pointer, returns NULL, and leaves no block of
\* that construction allocated.
C10_CreateFailsCleanly ==
  lastOp.op = "create" =>
    /\ fault # "null_deref"
    /\ lastOp.ret = NULL => ~tableAlloc /\ ~slotsAlloc

\* C11: a ch_put of a new key during which a malloc fails dereferences no
\* null pointer and returns a failure result, not the value it was given (the
\* value given is non-null here, so that NULL would be a failure result).
C11_PutAllocFailureReported ==
  lastOp.op = "put" =>
    /\ fault # "null_deref"
    /\ (/\ fault = "none" /\ handle = "live" /\ hist # "cleared"
        /\ lastOp.old = Absent /\ expect[lastOp.key] = Absent
        /\ lastOp.val # NULL)
         => lastOp.ret # lastOp.val

\* The results of ch_get and of ch_delete for p_key in the current state.
GetRet(p_key) == ch_get(Heap, size, p_key).ret
DeleteRet(p_key) == ch_delete(Heap, size, p_key).ret

\* C12 as claimed: for a key stored with a null value, ch_get and ch_delete
\* return something else than they return for a key that is not in the table.
C12_NullValueDistinct ==
  Intact =>
    \A k \in Keys, a \in Keys :
      (expect[k] = NULL /\ expect[a] = Absent) =>
        GetRet(k) # GetRet(a) /\ DeleteRet(k) # DeleteRet(a)

\* C12 as amended: ch_get and ch_delete return NULL for a key that is not in
\* the table; that differs from what they return for a key stored with a
\* non-null value, and is what they return for a key stored with NULL.
C12_NotFoundIsNull ==
  Intact =>
    \A k \in Keys :
      /\ expect[k] = Absent => GetRet(k) = NULL /\ DeleteRet(k) = NULL
      /\ expect[k] = NULL => GetRet(k) = NULL /\ DeleteRet(k) = NULL
      /\ expect[k] \notin {Absent, NULL} =>
           GetRet(k) # NULL /\ DeleteRet(k) # NULL

\* C12 witness: ch_get has just returned NULL for a key stored with NULL,
\* while another key of the same chain is stored with a non-null value and a
\* third key is not in the table.
C12_Witness ==
  /\ Intact /\ lastOp.op = "get" /\ lastOp.old = NULL /\ lastOp.ret = NULL
  /\ lastOp.len = 2
  /\ \E k \in Keys : expect[k] \notin {Absent, NULL}
  /\ \E a \in Keys : expect[a] = Absent

\* C13: every ch_put that returns gives back its value argument, and the key
\* is then in the table mapped to that value.
C13_PutReturnsStored ==
  (handle = "live" /\ fault = "none" /\ hist # "cleared" /\ lastOp.op = "put")
    => lastOp.ret = lastOp.val /\ Found(lastOp.key, lastOp.val)

\* C14: a ch_get that runs to its return leaves the table, the heap and the
\* set of allocated blocks as they were, and a second ch_get of the same key
\* returns the same result.
C14_GetReadOnly ==
  [][ (handle = "live" /\ fault = "none" /\ lastOp'.op = "get"
       /\ fault' = "none") =>
        /\ Heap' = Heap
        /\ UNCHANGED <<handle, size, tableAlloc, slotsAlloc>>
        /\ lastOp'.ret = ch_get(Heap', size', lastOp'.key).ret
        /\ ch_get(Heap', size', lastOp'.key).fault = "none" ]_vars

\* C14 witness: ch_get has just returned the non-null value of a key that is
\* second in its chain.
C14_Witness ==
  /\ handle = "live" /\ fault = "none" /\ lastOp.op = "get"
  /\ lastOp.pos = 2 /\ lastOp.ret # NULL

\* C15: when the caller overwrites or releases the key buffer it passed to
\* ch_put, the table does not change: every chain holds the same keys and
\* values in the same order, and ch_get returns for every string what it
\* returned before, so the string the buffer held is still found with its
\* value and the buffer's new string finds nothing it did not find before.
C15_KeyIsCopied ==
  [][ (Intact /\ lastOp'.op \in {"overwrite", "release"}) =>
        /\ Table(Heap', size') = Table(Heap, size)
        /\ \A k \in Keys :
             /\ ch_get(Heap', size', k).fault = "none"
             /\ ch_get(Heap', size', k).ret = ch_get(Heap, size, k).ret
             /\ ch_get(Heap', size', k).ret
                  = (IF expect[k] = Absent THEN NULL ELSE expect[k]) ]_vars

\* C15 witness: the caller has overwritten its buffer with a string that is
\* not in the table, after the string the buffer held was put with a non-null
\* value as second entry of its chain.
C15_Witness ==
  /\ Intact /\ lastOp.op = "overwrite"
  /\ lastOp.old \notin {Absent, NULL} /\ lastOp.pos = 2
  /\ expect[lastOp.key] = Absent
  /\ BufferKey = lastOp.key

RECURSIVE FoldBytes(_, _, _, _)
\* acc * 33 + byte over the bytes lo + 1 .. hi of p_key, each byte taken as
\* its value 0..255, modulo 2^(16 * NumLimbs).  Long ranges are folded half
\* by half, the first half first.
FoldBytes(p_key, lo, hi, acc) ==
  IF lo >= hi THEN acc
  ELSE IF hi - lo = 1
    THEN MulAdd(acc, [i \in 1..NumLimbs |-> IF i = 1 THEN p_key[hi] ELSE 0],
                1, 0)
  ELSE LET mid == lo + ((hi - lo) \div 2)
           first == FoldBytes(p_key, lo, mid, acc)
       IN  IF first[1] >= 0 THEN FoldBytes(p_key, mid, hi, first) ELSE first

\* C16: _hash returns the fold of acc * 33 + byte from 0 over all bytes of the
\* key, modulo 2^64, for bytes of every value and keys of every length; the
\* empty string hashes to 0; the slot is that hash modulo the capacity.
C16_HashIsFold ==
  lastOp.op = "hash" =>
    LET fold == FoldBytes(lastOp.key, 0, Len(lastOp.key),
                          [i \in 1..NumLimbs |-> 0])
    IN  /\ lastOp.ret = fold
        /\ lastOp.key = <<>> => lastOp.ret = [i \in 1..NumLimbs |-> 0]
        /\ lastOp.pos = LimbsMod(fold, lastOp.val, NumLimbs, 0)

\* C17: in every state that ch_put and ch_delete reach on a created table,
\* the key of every entry in the chain of slot i hashes, modulo the capacity,
\* to i.
C17_EntriesInOwnSlot ==
  Intact =>
    \A i \in 0..(size - 1) :
      \A j \in 1..Len(ChainPairs(Heap, size, i)) :
        SlotOf(ChainPairs(Heap, size, i)[j][1], size) = i

\* C17 witness: a table of two slots after puts and the delete of one entry
\* of a chain of two, with one entry left in each slot.
C17_Witness ==
  /\ Intact /\ size = 2 /\ lastOp.op = "delete" /\ lastOp.len = 2
  /\ lastOp.old # Absent
  /\ Len(ChainPairs(Heap, size, 0)) = 1
  /\ Len(ChainPairs(Heap, size, 1)) = 1

\* The allocated entries the chains of the slots hold.
LiveEntries(h, sz) ==
  UNION {{ChainOfSlot(h, i)[j] : j \in 1..Len(ChainOfSlot(h, i))} :
           i \in 0..(sz - 1)}

\* C18: in every state that ch_put, ch_get, ch_delete and ch_clear reach on a
\* created table, no two entries in the chains of the table have equal keys.
C18_NoDuplicateKeys ==
  (handle = "live" /\ fault = "none") =>
    \A e1 \in LiveEntries(Heap, size), e2 \in LiveEntries(Heap, size) :
      e1 # e2 => KeyAt(Heap, e1) # KeyAt(Heap, e2)

\* The chain seq after a put of <<p_key, p_value>>: the pair of p_key keeps
\* its place and takes the value, or is appended if there is none.
PutInChain(seq, p_key, p_value) ==
  IF \E j \in 1..Len(seq) : seq[j][1] = p_key
    THEN [j \in 1..Len(seq) |->
            IF seq[j][1] = p_key THEN <<p_key, p_value>> ELSE seq[j]]
    ELSE Append(seq, <<p_key, p_value>>)

\* C19: a ch_put(k, v) that returns changes nothing but k's own entry: if k
\* is new it becomes the last entry of the chain of its slot, if k exists only
\* its value changes; every other entry keeps its slot, its place and its
\* value, and ch_get of every other key returns what it returned before.  (If
\* the malloc of the key copy fails, nothing changes at all.)
C19_PutFrame ==
  [][ (Intact /\ lastOp'.op = "put" /\ fault' = "none") =>
        LET k == lastOp'.key
            v == lastOp'.val
        IN  /\ size' = size
            /\ Table(Heap', size')
                 = [i \in 0..(size - 1) |->
                      IF i = SlotOf(k, size) /\ expect'[k] # Absent
                        THEN PutInChain(Table(Heap, size)[i], k, v)
                        ELSE Table(Heap, size)[i]]
            /\ \A a \in Keys \ {k} :
                 ch_get(Heap', size', a) = Ok(Heap', ch_get(Heap, size, a).ret)
    ]_vars

\* C19 witness: a new key has been put into a slot whose chain held two
\* entries, and is now the third.
C19_Witness ==
  /\ Intact /\ lastOp.op = "put" /\ lastOp.old = Absent /\ lastOp.len = 2
  /\ expect[lastOp.key] = lastOp.val
  /\ PosOf(Heap, size, lastOp.key) = 3

RECURSIVE PointedFrom(_, _, _)
\* The addresses a walk from p follows, released blocks included.
PointedFrom(h, p, seen) ==
  IF p = NULL \/ p \in seen THEN seen
  ELSE PointedFrom(h, h.ent[p].p_next, seen \cup {p})

\* What the slots and links of the table point to.
Reachable(h, sz) ==
  UNION {PointedFrom(h, h.p_entries[i], {}) : i \in 0..(sz - 1)}

AllocEntries(h) == {e \in EntryAddrs : h.ent[e].alloc}
AllocKeys(h) == {k \in KeyAddrs : h.keymem[k].alloc}

\* The allocated entries are those the slots reach, each with an allocated
\* key string of its own, and no other key string is allocated.
Owns(h, sz) ==
  /\ AllocEntries(h) = Reachable(h, sz)
  /\ AllocKeys(h) = {h.ent[e].p_key : e \in Reachable(h, sz)}
  /\ \A e1 \in Reachable(h, sz), e2 \in Reachable(h, sz) :
       e1 # e2 => h.ent[e1].p_key # h.ent[e2].p_key

\* C20: on a table that ch_put and ch_delete work on, the allocated entries
\* are exactly those reachable from the slots, each with an allocated key
\* copy of its own; a ch_put of a new key whose mallocs succeed allocates one
\* entry and one key copy; a ch_put of an existing key allocates nothing; a
\* ch_delete of a present key releases the matched entry and its key copy,
\* once, and nothing else.
C20_Ownership ==
  [][ LET k == lastOp'.key
          was == LiveEntries(Heap, size)
          hit == {e \in was : KeyAt(Heap, e) = k}
      IN  /\ Intact' => Owns(Heap', size')
          /\ (Intact /\ lastOp'.op = "put" /\ fault' = "none"
              /\ expect[k] = Absent /\ expect'[k] # Absent) =>
               /\ AllocEntries(Heap) \subseteq AllocEntries(Heap')
               /\ AllocKeys(Heap) \subseteq AllocKeys(Heap')
               /\ Cardinality(AllocEntries(Heap') \ AllocEntries(Heap)) = 1
               /\ Cardinality(AllocKeys(Heap') \ AllocKeys(Heap)) = 1
          /\ (Intact /\ lastOp'.op = "put" /\ expect[k] # Absent) =>
               /\ fault' = "none"
               /\ AllocEntries(Heap') = AllocEntries(Heap)
               /\ AllocKeys(Heap') = AllocKeys(Heap)
          /\ (Intact /\ lastOp'.op = "delete" /\ expect[k] # Absent) =>
               /\ fault' = "none"
               /\ Cardinality(hit) = 1
               /\ AllocEntries(Heap') = AllocEntries(Heap) \ hit
               /\ AllocKeys(Heap')
                    = AllocKeys(Heap) \ {Heap.ent[e].p_key : e \in hit}
               /\ Cardinality(AllocKeys(Heap')) = Cardinality(AllocKeys(Heap)) - 1
    ]_vars

\* C20 witness: the head of a chain of two has been deleted in a table of two
\* slots, and two entries with their key copies remain allocated.
C20_Witness ==
  /\ Intact /\ size = 2 /\ lastOp.op = "delete" /\ lastOp.old # Absent
  /\ lastOp.pos = 1 /\ lastOp.len = 2
  /\ Cardinality(AllocEntries(Heap)) = 2
  /\ Cardinality(AllocKeys(Heap)) = 2

\* C21: every ch_put, ch_get and ch_delete on a table that create, put, get,
\* delete and clear have worked on walks the entries of one chain, each at
\* most once, and returns: the walk neither leaves the chain for a released
\* block nor comes back to an entry it has visited.
C21_WalksReturn ==
  lastOp.op \in {"put", "get", "delete"} =>
    fault \notin {"use_after_free", "no_termination"}

\* C22: when as many distinct keys are in the table as it has slots, every
\* key is in a slot of its own: no chain holds more than one entry.
C22_OwnSlots ==
  (Intact /\ Cardinality({k \in Keys : expect[k] # Absent}) = size) =>
    \A i \in 0..(size - 1) : Len(ChainPairs(Heap, size, i)) <= 1

\* C23: on a created table that is not destroyed, no ch_put, ch_get,
\* ch_delete or ch_clear reads, writes or releases a released entry or key
\* copy, and no slot or link refers to a released block.
C23_MemorySafe ==
  /\ lastOp.op \in {"put", "get", "delete", "clear"} =>
       fault \notin {"use_after_free", "double_free"}
  /\ (handle = "live" /\ fault = "none") =>
       \A e \in Reachable(Heap, size) :
         /\ ent[e].alloc
         /\ ent[e].p_key # NULL => keymem[ent[e].p_key].alloc

====
